---- MODULE Spec2Model ----
(***************************************************************************)
(* Model of the chat gateway in src/backend/app: the token-bucket          *)
(* RateLimiter (rate_limiter.py), the MetricsCollector (metrics.py) and    *)
(* the streaming chat handlers of main.py (_sse_chat_generator,            *)
(* websocket_chat, _handle_websocket_chat) with the admission dependencies *)
(* of deps.py.                                                             *)
(*                                                                         *)
(* Time and tokens are exact rationals scaled to integers.  One clock tick *)
(* is 1/TicksPerSec seconds and bucket tokens are counted in units of      *)
(* 1/TicksPerSec token, so `tokens + elapsed * rate` of the code is        *)
(* `tokens + elapsed * Rate` in units, one whole token is One units and    *)
(* 1/rate seconds is Sub ticks.  Floating-point rounding is not modelled.  *)
(***************************************************************************)
EXTENDS Integers, Sequences, FiniteSets, TLC

\* ---------------------------------------------------------------- bounds
Sub == 2          \* clock ticks per refill period 1/rate
MaxTime == 4      \* last clock tick
MaxCalls == 9     \* allow calls per behaviour of SpecLimiter
WindowSize == 4   \* MetricsCollector window_size (512 in the program)
MaxRecords == 5   \* record calls per behaviour of SpecMetrics
MaxChunks == 2    \* backend chunks per streaming turn
MaxTurns == 2     \* chat requests and WebSocket messages per behaviour
MaxRequests == 1  \* admission checks per behaviour of SpecStream
MaxStreamTime == 1  \* last clock tick of SpecStream and SpecChat
MaxChatRequests == 2  \* admission checks per behaviour of SpecChat
MaxTasks == 3     \* concurrent allow calls per behaviour of SpecTasks

\* ------------------------------------------------------- program constants
Rate == 3         \* Settings.rate_limit_rps
Burst == 6        \* Settings.rate_limit_burst

TicksPerSec == Rate * Sub
One == TicksPerSec                 \* 1.0 token, in units
Capacity == Burst * TicksPerSec    \* float(burst), in units

Ids == {"A", "B"}                  \* client identifiers

Min(a, b) == IF a < b THEN a ELSE b
Max(a, b) == IF a > b THEN a ELSE b

VARIABLES
  now,        \* the monotonic clock, in ticks
  buckets,    \* RateLimiter._buckets: client_id -> [tokens, timestamp]
  log,        \* history: client_id -> sequence of [t, ok, alone] of its calls
  solo,       \* history: client_id -> the dict of a limiter only it calls
  requests_total,     \* MetricsCollector._requests_total
  prompt_tokens,      \* MetricsCollector._prompt_tokens
  completion_tokens,  \* MetricsCollector._completion_tokens
  latencies,          \* MetricsCollector._latencies, oldest first
  mlock,      \* MetricsCollector._lock: the thread holding it, or "free"
  mpc,        \* thread -> its position in record / snapshot
  margs,      \* thread -> the arguments of its record call
  mtmp,       \* thread -> the value loaded by its current `+=`
  snap,       \* thread -> the locals of its snapshot call
  recorded,   \* history: the latency arguments, in the order appended
  begun,      \* history: record calls begun
  returned,   \* history: record calls returned
  hpc,        \* position of the request handler: "idle", "sse_stream",
              \* "ws_recv" (line 204), "ws_stream" or "chat_call" (line 163)
  transport,  \* transport of the current or last exchange: "none", "http",
              \* "sse", "ws"
  cid,        \* client identifier of the current request or connection
  connected,  \* the client is still connected
  application_state,  \* websocket.application_state, read at line 375
  started,    \* local `started` of the streaming turn
  collected,  \* local `collected` of the streaming turn
  done_sent,  \* local `done_sent` of the streaming turn
  events,     \* the events, or the HTTP response, sent to the client since
              \* the last inbound message
  consumed,   \* the chunks taken from stream_chat, or the outcome of chat, in
              \* this turn
  ended,      \* history: how the turn ended ("no" while none has)
  samples,    \* history: the arguments of metrics.record calls of this turn
  turns,      \* history: chat requests and WebSocket messages handled
  requests,   \* history: admission checks made by the handlers
  admitted,   \* history: client_id -> admission checks that returned true
  streams,    \* history: client_id -> backend calls (chat, stream_chat) begun
  tpc,        \* task -> its position in RateLimiter.allow: "idle", "lock"
              \* (line 21), "body" (line 22), "unlock" (line 37), "done"
  tclient,    \* task -> the argument client_id of its allow call
  tnow,       \* task -> the local `now` of its allow call
  rlock       \* RateLimiter._lock: the task holding it, or 0 when free

limiterVars == <<now, buckets, log, solo>>
taskVars == <<tpc, tclient, tnow, rlock>>
metricsState == <<requests_total, prompt_tokens, completion_tokens, latencies>>
metricsVars == <<requests_total, prompt_tokens, completion_tokens, latencies,
                 mlock, mpc, margs, mtmp, snap, recorded, begun, returned>>
metricsThreads == <<mlock, mpc, margs, mtmp, snap>>
turnVars == <<started, collected, done_sent, events, consumed, ended, samples>>
streamVars == <<hpc, transport, cid, connected, application_state, started, collected, done_sent,
                events, consumed, ended, samples, turns, requests, admitted, streams>>
vars == <<now, buckets, log, solo,
          requests_total, prompt_tokens, completion_tokens, latencies,
          mlock, mpc, margs, mtmp, snap, recorded, begun, returned,
          hpc, transport, cid, connected, application_state, started,
          collected, done_sent,
          events, consumed, ended, samples, turns, requests, admitted, streams,
          tpc, tclient, tnow, rlock>>

\* ============================================================ RateLimiter

\* lines 22-25: the bucket of client_id, created full on first use
NewBucket(t) == [tokens |-> Capacity, timestamp |-> t]
GetBucket(bkts, id, t) == IF id \in DOMAIN bkts THEN bkts[id] ELSE NewBucket(t)

\* line 27
Elapsed(b, t) == Max(0, t - b.timestamp)

\* faulty variant: the refill is not capped at the capacity
RefilledUncapped(b, t) == b.tokens + Elapsed(b, t) * Rate

\* line 28
Refilled(b, t) == Min(Capacity, b.tokens + Elapsed(b, t) * Rate)

\* faulty variants of the test of line 30: `refilled <= 1.0` rejects, and
\* only `refilled < 0` rejects
AdmitOffByOne(refilled) == refilled > One
AdmitNonNegative(refilled) == refilled >= 0

\* line 30: the call is admitted unless refilled < 1.0
Admit(refilled) == ~(refilled < One)

\* faulty variant: an admitted call takes no token
ChargedNothing(b, t) == [tokens |-> Refilled(b, t), timestamp |-> t]

\* faulty variant: a rejected call keeps the old timestamp
ChargedStaleTimestamp(b, t) ==
  LET r == Refilled(b, t)
  IN  IF Admit(r) THEN [tokens |-> r - One, timestamp |-> t]
                  ELSE [tokens |-> r, timestamp |-> b.timestamp]

\* lines 31-37: the bucket after the call
Charged(b, t) ==
  LET r == Refilled(b, t)
  IN  IF Admit(r) THEN [tokens |-> r - One, timestamp |-> t]
                  ELSE [tokens |-> r, timestamp |-> t]

\* faulty variant: one bucket shared by every client
StoreShared(bkts, id, b) == [x \in DOMAIN bkts \cup {id} |-> b]

\* the dict after bucket b is stored under client_id
Store(bkts, id, b) ==
  [x \in DOMAIN bkts \cup {id} |-> IF x = id THEN b ELSE bkts[x]]

\* RateLimiter.allow(client_id) at clock value t: result and new dict
AllowResult(bkts, id, t) == Admit(Refilled(GetBucket(bkts, id, t), t))
AllowBuckets(bkts, id, t) == Store(bkts, id, Charged(GetBucket(bkts, id, t), t))

TotalCalls == Len(log["A"]) + Len(log["B"])

\* the effect on the limiter of lines 22-37 of allow(client_id), run with
\* the local `now` equal to t
AllowEffectAt(id, t) ==
  /\ buckets' = AllowBuckets(buckets, id, t)
  /\ solo' = [solo EXCEPT ![id] = AllowBuckets(@, id, t)]
  /\ log' = [log EXCEPT ![id] = Append(@,
               [t |-> t,
                ok |-> AllowResult(buckets, id, t),
                alone |-> AllowResult(solo[id], id, t)])]

\* the effect of one allow(client_id) call that runs without suspension
AllowEffect(id) == AllowEffectAt(id, now)

Allow(id) ==
  /\ TotalCalls < MaxCalls
  /\ AllowEffect(id)
  /\ UNCHANGED <<now, metricsVars, streamVars>>
  /\ UNCHANGED taskVars

Tick ==
  /\ now < MaxTime
  /\ now' = now + 1
  /\ UNCHANGED <<buckets, log, solo, metricsVars, streamVars>>
  /\ UNCHANGED taskVars

\* the tasks that call allow concurrently
Tasks == 1..MaxTasks

TaskVarsInit ==
  /\ tpc = [k \in Tasks |-> "idle"]
  /\ tclient = [k \in Tasks |-> "A"]
  /\ tnow = [k \in Tasks |-> 0]
  /\ rlock = 0

LimiterInit ==
  /\ now = 0
  /\ buckets = << >>
  /\ log = [id \in Ids |-> << >>]
  /\ solo = [id \in Ids |-> << >>]
  /\ TaskVarsInit

LimiterNext == Tick \/ \E id \in Ids : Allow(id)

\* ======================================================= MetricsCollector

Threads == {"t1", "t2"}

\* the arguments of record: latency_ms, prompt_tokens, completion_tokens
Samples == { [lat |-> 1, p |-> 2, c |-> 1],
             [lat |-> 2, p |-> 0, c |-> 3],
             [lat |-> -1, p |-> -1, c |-> -1] }
NoArgs == [lat |-> 0, p |-> 0, c |-> 0]
NoSnap == [latencies |-> << >>, requests_total |-> 0, tokens_prompt_total |-> 0,
           tokens_completion_total |-> 0, latency_ms_p50 |-> 0,
           latency_ms_p95 |-> 0, before |-> 0]

\* percentiles and their results are exact rationals in hundredths:
\* 0.5 is 50, 0.95 is 95 and a result of 38.5 is 3850
PctScale == 100

\* sorted(values) of line 45, by insertion
RECURSIVE InsertSorted(_, _)
InsertSorted(x, q) ==
  IF q = << >> THEN <<x>>
  ELSE IF x <= Head(q) THEN <<x>> \o q
  ELSE <<Head(q)>> \o InsertSorted(x, Tail(q))

RECURSIVE SortedList(_)
SortedList(values) ==
  IF values = << >> THEN << >>
  ELSE InsertSorted(Head(values), SortedList(Tail(values)))

\* faulty variant: the two interpolation weights are exchanged
PercentileSwapped(values, percentile) ==
  IF values = << >> THEN 0
  ELSE LET ordered == SortedList(values)
           k == (Len(ordered) - 1) * percentile
           f == k \div PctScale
           c == (k + PctScale - 1) \div PctScale
       IN IF f = c THEN ordered[f + 1] * PctScale
          ELSE ordered[f + 1] * (k - f * PctScale)
               + ordered[c + 1] * (c * PctScale - k)

\* _percentile, lines 42-51: k, c - k and k - f are in hundredths, f and c
\* are the 0-based positions floor(k) and ceil(k)
Percentile(values, percentile) ==
  IF values = << >> THEN 0
  ELSE LET ordered == SortedList(values)
           k == (Len(ordered) - 1) * percentile
           f == k \div PctScale
           c == (k + PctScale - 1) \div PctScale
       IN IF f = c THEN ordered[f + 1] * PctScale
          ELSE ordered[f + 1] * (c * PctScale - k)
               + ordered[c + 1] * (k - f * PctScale)

\* faulty variant: the magnitude of a negative input is kept
ClampMagnitude(x) == IF x < 0 THEN 0 - x ELSE x

\* faulty variant: no clamping
ClampNothing(x) == x

\* max(0, x) of lines 22-24 (float(latency_ms) keeps the value)
Clamp(x) == Max(0, x)

\* faulty variant: a full window refuses the new item
DequeAppendDropNewest(q, x) == IF Len(q) = WindowSize THEN q ELSE Append(q, x)

\* deque(maxlen=window_size).append: a full deque drops its oldest item
DequeAppend(q, x) ==
  IF Len(q) = WindowSize THEN Append(Tail(q), x) ELSE Append(q, x)

\* faulty variant: no mutual exclusion
LockFreeAlways(l) == TRUE

\* `with self._lock` is entered only while no thread holds the lock
LockFree(l) == l = "free"

Goto(t, label) == mpc' = [mpc EXCEPT ![t] = label]

\* a thread calls metrics.record(latency_ms, prompt_tokens, completion_tokens)
RecordCall(t, s) ==
  /\ mpc[t] = "idle"
  /\ begun < MaxRecords
  /\ begun' = begun + 1
  /\ margs' = [margs EXCEPT ![t] = s]
  /\ Goto(t, "rec_lock")
  /\ UNCHANGED <<limiterVars, streamVars, metricsState, mlock, mtmp, snap, recorded, returned>>
  /\ UNCHANGED taskVars

\* line 20
RecordAcquire(t) ==
  /\ mpc[t] = "rec_lock"
  /\ LockFree(mlock)
  /\ mlock' = t
  /\ Goto(t, "rec_requests_load")
  /\ UNCHANGED <<limiterVars, streamVars, metricsState, margs, mtmp, snap, recorded, begun, returned>>
  /\ UNCHANGED taskVars

\* line 21, self._requests_total += 1: load ...
RecordRequestsLoad(t) ==
  /\ mpc[t] = "rec_requests_load"
  /\ mtmp' = [mtmp EXCEPT ![t] = requests_total]
  /\ Goto(t, "rec_requests_store")
  /\ UNCHANGED <<limiterVars, streamVars, metricsState, mlock, margs, snap, recorded, begun, returned>>
  /\ UNCHANGED taskVars

\* ... and store
RecordRequestsStore(t) ==
  /\ mpc[t] = "rec_requests_store"
  /\ requests_total' = mtmp[t] + 1
  /\ Goto(t, "rec_prompt_load")
  /\ UNCHANGED <<limiterVars, streamVars, prompt_tokens, completion_tokens, latencies,
                 mlock, margs, mtmp, snap, recorded, begun, returned>>
  /\ UNCHANGED taskVars

\* line 22, self._prompt_tokens += max(0, prompt_tokens)
RecordPromptLoad(t) ==
  /\ mpc[t] = "rec_prompt_load"
  /\ mtmp' = [mtmp EXCEPT ![t] = prompt_tokens]
  /\ Goto(t, "rec_prompt_store")
  /\ UNCHANGED <<limiterVars, streamVars, metricsState, mlock, margs, snap, recorded, begun, returned>>
  /\ UNCHANGED taskVars

RecordPromptStore(t) ==
  /\ mpc[t] = "rec_prompt_store"
  /\ prompt_tokens' = mtmp[t] + Clamp(margs[t].p)
  /\ Goto(t, "rec_completion_load")
  /\ UNCHANGED <<limiterVars, streamVars, requests_total, completion_tokens, latencies,
                 mlock, margs, mtmp, snap, recorded, begun, returned>>
  /\ UNCHANGED taskVars

\* line 23, self._completion_tokens += max(0, completion_tokens)
RecordCompletionLoad(t) ==
  /\ mpc[t] = "rec_completion_load"
  /\ mtmp' = [mtmp EXCEPT ![t] = completion_tokens]
  /\ Goto(t, "rec_completion_store")
  /\ UNCHANGED <<limiterVars, streamVars, metricsState, mlock, margs, snap, recorded, begun, returned>>
  /\ UNCHANGED taskVars

RecordCompletionStore(t) ==
  /\ mpc[t] = "rec_completion_store"
  /\ completion_tokens' = mtmp[t] + Clamp(margs[t].c)
  /\ Goto(t, "rec_append")
  /\ UNCHANGED <<limiterVars, streamVars, requests_total, prompt_tokens, latencies,
                 mlock, margs, mtmp, snap, recorded, begun, returned>>
  /\ UNCHANGED taskVars

\* line 24, self._latencies.append(max(0.0, float(latency_ms)))
RecordAppend(t) ==
  /\ mpc[t] = "rec_append"
  /\ latencies' = DequeAppend(latencies, Clamp(margs[t].lat))
  /\ recorded' = Append(recorded, margs[t].lat)
  /\ Goto(t, "rec_unlock")
  /\ UNCHANGED <<limiterVars, streamVars, requests_total, prompt_tokens, completion_tokens,
                 mlock, margs, mtmp, snap, begun, returned>>
  /\ UNCHANGED taskVars

\* the end of the with block, and the return
RecordRelease(t) ==
  /\ mpc[t] = "rec_unlock"
  /\ mlock' = IF mlock = t THEN "free" ELSE mlock
  /\ returned' = returned + 1
  /\ margs' = [margs EXCEPT ![t] = NoArgs]
  /\ mtmp' = [mtmp EXCEPT ![t] = 0]
  /\ Goto(t, "idle")
  /\ UNCHANGED <<limiterVars, streamVars, metricsState, snap, recorded, begun>>
  /\ UNCHANGED taskVars

\* a thread calls metrics.snapshot()
SnapshotCall(t) ==
  /\ mpc[t] = "idle"
  /\ snap' = [snap EXCEPT ![t] = [NoSnap EXCEPT !.before = returned]]
  /\ Goto(t, "snap_lock")
  /\ UNCHANGED <<limiterVars, streamVars, metricsState, mlock, margs, mtmp, recorded, begun, returned>>
  /\ UNCHANGED taskVars

\* line 27
SnapshotAcquire(t) ==
  /\ mpc[t] = "snap_lock"
  /\ LockFree(mlock)
  /\ mlock' = t
  /\ Goto(t, "snap_latencies")
  /\ UNCHANGED <<limiterVars, streamVars, metricsState, margs, mtmp, snap, recorded, begun, returned>>
  /\ UNCHANGED taskVars

\* line 28
SnapshotLatencies(t) ==
  /\ mpc[t] = "snap_latencies"
  /\ snap' = [snap EXCEPT ![t].latencies = latencies]
  /\ Goto(t, "snap_requests")
  /\ UNCHANGED <<limiterVars, streamVars, metricsState, mlock, margs, mtmp, recorded, begun, returned>>
  /\ UNCHANGED taskVars

\* line 29
SnapshotRequests(t) ==
  /\ mpc[t] = "snap_requests"
  /\ snap' = [snap EXCEPT ![t].requests_total = requests_total]
  /\ Goto(t, "snap_prompt")
  /\ UNCHANGED <<limiterVars, streamVars, metricsState, mlock, margs, mtmp, recorded, begun, returned>>
  /\ UNCHANGED taskVars

\* line 30
SnapshotPrompt(t) ==
  /\ mpc[t] = "snap_prompt"
  /\ snap' = [snap EXCEPT ![t].tokens_prompt_total = prompt_tokens]
  /\ Goto(t, "snap_completion")
  /\ UNCHANGED <<limiterVars, streamVars, metricsState, mlock, margs, mtmp, recorded, begun, returned>>
  /\ UNCHANGED taskVars

\* line 31, and the end of the with block
SnapshotCompletion(t) ==
  /\ mpc[t] = "snap_completion"
  /\ snap' = [snap EXCEPT ![t].tokens_completion_total = completion_tokens]
  /\ mlock' = IF mlock = t THEN "free" ELSE mlock
  /\ Goto(t, "snap_percentiles")
  /\ UNCHANGED <<limiterVars, streamVars, metricsState, margs, mtmp, recorded, begun, returned>>
  /\ UNCHANGED taskVars

\* lines 33-39: the dict is built from the copies, outside the lock
SnapshotPercentiles(t) ==
  /\ mpc[t] = "snap_percentiles"
  /\ snap' = [snap EXCEPT ![t].latency_ms_p50 = Percentile(snap[t].latencies, 50),
                          ![t].latency_ms_p95 = Percentile(snap[t].latencies, 95)]
  /\ Goto(t, "snap_return")
  /\ UNCHANGED <<limiterVars, streamVars, metricsState, mlock, margs, mtmp, recorded, begun, returned>>
  /\ UNCHANGED taskVars

\* line 33: the dict is returned
SnapshotReturn(t) ==
  /\ mpc[t] = "snap_return"
  /\ snap' = [snap EXCEPT ![t] = NoSnap]
  /\ Goto(t, "idle")
  /\ UNCHANGED <<limiterVars, streamVars, metricsState, mlock, margs, mtmp, recorded, begun, returned>>
  /\ UNCHANGED taskVars

MetricsInit ==
  /\ requests_total = 0
  /\ prompt_tokens = 0
  /\ completion_tokens = 0
  /\ latencies = << >>
  /\ mlock = "free"
  /\ mpc = [t \in Threads |-> "idle"]
  /\ margs = [t \in Threads |-> NoArgs]
  /\ mtmp = [t \in Threads |-> 0]
  /\ snap = [t \in Threads |-> NoSnap]
  /\ recorded = << >>
  /\ begun = 0
  /\ returned = 0

MetricsNext ==
  \E t \in Threads :
    \/ \E s \in Samples : RecordCall(t, s)
    \/ RecordAcquire(t)
    \/ RecordRequestsLoad(t)
    \/ RecordRequestsStore(t)
    \/ RecordPromptLoad(t)
    \/ RecordPromptStore(t)
    \/ RecordCompletionLoad(t)
    \/ RecordCompletionStore(t)
    \/ RecordAppend(t)
    \/ RecordRelease(t)
    \/ SnapshotCall(t)
    \/ SnapshotAcquire(t)
    \/ SnapshotLatencies(t)
    \/ SnapshotRequests(t)
    \/ SnapshotPrompt(t)
    \/ SnapshotCompletion(t)
    \/ SnapshotPercentiles(t)
    \/ SnapshotReturn(t)

\* the latencies of the windows snapshot is applied to
PercentileValues == {10, 20, 30, 40}

\* the windows of at most WindowSize of these latencies
Windows == UNION { [1..n -> PercentileValues] : n \in 0..WindowSize }

\* the collector after the records that left the window w, no call running
SnapshotInit ==
  \E w \in Windows :
    /\ requests_total = Len(w)
    /\ prompt_tokens = 0
    /\ completion_tokens = 0
    /\ latencies = w
    /\ mlock = "free"
    /\ mpc = [t \in Threads |-> "idle"]
    /\ margs = [t \in Threads |-> NoArgs]
    /\ mtmp = [t \in Threads |-> 0]
    /\ snap = [t \in Threads |-> NoSnap]
    /\ recorded = w
    /\ begun = Len(w)
    /\ returned = Len(w)

SnapshotNext ==
  \E t \in Threads :
    \/ SnapshotCall(t)
    \/ SnapshotAcquire(t)
    \/ SnapshotLatencies(t)
    \/ SnapshotRequests(t)
    \/ SnapshotPrompt(t)
    \/ SnapshotCompletion(t)
    \/ SnapshotPercentiles(t)
    \/ SnapshotReturn(t)

\* ================================================= streaming chat handlers

\* texts are sequences of characters, so that "".join is concatenation
NoText == << >>
Hi == <<"h", "i">>
Bang == <<"!">>
NoCount == 0 - 1     \* the chunk carries no such counter

\* one parsed line of the backend's response, as stream_chat yields it:
\* error, response, message.content, done, prompt_eval_count, eval_count
Chunk(e, r, m, d, p, c) ==
  [error |-> e, response |-> r, content |-> m, done |-> d,
   prompt_eval_count |-> p, eval_count |-> c]

Chunks ==
  { Chunk("", Hi, NoText, FALSE, NoCount, NoCount),
    Chunk("", NoText, Bang, FALSE, NoCount, NoCount),
    Chunk("", NoText, NoText, FALSE, NoCount, NoCount),
    Chunk("", NoText, NoText, TRUE, 2, 1),
    Chunk("", NoText, Bang, TRUE, NoCount, NoCount),
    Chunk("boom", NoText, NoText, FALSE, NoCount, NoCount),
    Chunk("boom", Hi, NoText, TRUE, 2, 1) }

\* OllamaServiceError raised by stream_chat: an HTTP error status (raised by
\* raise_for_status, before any line is read) or a request error (any time)
ServiceErrors ==
  { [kind |-> "status", status_code |-> 404, message |-> "model not found"],
    [kind |-> "status", status_code |-> 503,
     message |-> "Ollama responded with status 503"],
    [kind |-> "request", status_code |-> 502,
     message |-> "Unable to reach Ollama"] }

\* inbound WebSocket text messages: a chat turn, text that is not JSON, JSON
\* that is no object, an object that fails ChatRequest validation
Messages == {"chat", "bad_json", "not_object", "bad_payload"}

\* faulty variant: the message content is preferred to the response
TokenFromChunkContentFirst(c) ==
  IF c.content # NoText THEN c.content
  ELSE IF c.response # NoText THEN c.response
  ELSE NoText

\* _token_from_chunk: a field that is missing, empty or None is NoText
TokenFromChunk(c) ==
  IF c.response # NoText THEN c.response
  ELSE IF c.content # NoText THEN c.content
  ELSE NoText

\* faulty variant: a missing counter is not replaced by 0
CountOfKeepMissing(x) == x

\* int(chunk.get(...) or 0)
CountOf(x) == IF x = NoCount THEN 0 ELSE x

\* _usage_from_chunk; total_tokens keeps the default of UsageStats
UsageFromChunk(c) ==
  [prompt_tokens |-> CountOf(c.prompt_eval_count),
   completion_tokens |-> CountOf(c.eval_count),
   total_tokens |-> 0]

\* usage.total_tokens = usage.prompt_tokens + usage.completion_tokens
WithTotal(u) ==
  [u EXCEPT !.total_tokens = u.prompt_tokens + u.completion_tokens]

\* UsageStats()
ZeroUsage == [prompt_tokens |-> 0, completion_tokens |-> 0, total_tokens |-> 0]

\* faulty variant: the last collected token is left out
JoinSkipLast(q) ==
  IF Len(q) <= 1 THEN NoText ELSE q[1] \o (IF Len(q) = 2 THEN NoText ELSE q[2])

\* "".join(collected)
RECURSIVE Join(_)
Join(q) == IF q = << >> THEN NoText ELSE Head(q) \o Join(Tail(q))

\* int((time.perf_counter() - started) * 1000)
LatencyMs(t0, t1) == ((t1 - t0) * 1000) \div TicksPerSec

TokenEvent(tok) == [type |-> "token", token |-> tok]
DoneEvent(content, usage, lat) ==
  [type |-> "done", content |-> content, usage |-> usage, latency_ms |-> lat]
ErrorEvent(msg) == [type |-> "error", message |-> msg]

\* the responses of POST /api/chat without a stream: a ChatResponse, or the
\* error response of an HTTPException or of a failed request validation
ChatResponse(content, usage, lat) ==
  [type |-> "response", status_code |-> 200, content |-> content,
   usage |-> usage, latency_ms |-> lat]
HttpError(status_code, detail) ==
  [type |-> "http_error", status_code |-> status_code, detail |-> detail]

\* the bodies ollama_client.chat returns: content in message, in response,
\* in both, in neither; with and without counters
Responses ==
  { Chunk("", NoText, Hi, TRUE, 2, 1),
    Chunk("", Hi, NoText, TRUE, NoCount, 1),
    Chunk("", Hi, Bang, TRUE, 2, NoCount),
    Chunk("", NoText, NoText, TRUE, NoCount, NoCount) }

\* _extract_content, lines 365-371
ExtractContent(response) ==
  IF response.content # NoText THEN response.content
  ELSE IF response.response # NoText THEN response.response
  ELSE NoText

\* faulty variant: every upstream status is passed through
MapStatusPassThrough(status_code) == status_code

\* _map_status, lines 359-362
MapStatus(status_code) == IF status_code >= 500 THEN 502 ELSE status_code

\* faulty variant: the loop goes on after Done
LeaveLoopMissing(stay, leave) == stay

\* `break` (line 256) and `return` (line 304) leave the chunk loop
LeaveLoop(stay, leave) == leave

\* faulty variant: no Done when the stream just ends
FinalDoneNever(ds) == FALSE

\* `if not done_sent` (lines 259, 305)
FinalDoneNeeded(ds) == ~ds

\* metrics.record(latency_ms, prompt_tokens, completion_tokens) as one step
\* of the calling handler
MetricsRecord(lat, p, c) ==
  /\ requests_total' = requests_total + 1
  /\ prompt_tokens' = prompt_tokens + Clamp(p)
  /\ completion_tokens' = completion_tokens + Clamp(c)
  /\ latencies' = DequeAppend(latencies, Clamp(lat))
  /\ recorded' = Append(recorded, lat)
  /\ begun' = begun + 1
  /\ returned' = returned + 1
  /\ samples' = Append(samples, [lat |-> lat, p |-> p, c |-> c])
  /\ UNCHANGED metricsThreads

NoRecord == UNCHANGED <<metricsVars, samples>>

\* the locals and the history of a turn after one step of its handler
Turn(h, col, ds, evs, cons, e) ==
  /\ hpc' = h
  /\ collected' = col
  /\ done_sent' = ds
  /\ events' = evs
  /\ consumed' = cons
  /\ ended' = e

\* faulty variant: the text accumulator outlives the turn
BeginTurnKeepsCollected(h) ==
  /\ Turn(h, collected, FALSE, << >>, << >>, "no")
  /\ started' = now
  /\ samples' = << >>
  /\ turns' = turns + 1
  /\ streams' = [streams EXCEPT ![cid'] = @ + 1]

\* lines 232-234, 274-276: a turn starts
BeginTurn(h) ==
  /\ Turn(h, << >>, FALSE, << >>, << >>, "no")
  /\ started' = now
  /\ samples' = << >>
  /\ turns' = turns + 1
  /\ streams' = [streams EXCEPT ![cid'] = @ + 1]

\* no turn starts
NoTurn(h, evs, e) ==
  /\ Turn(h, << >>, FALSE, evs, << >>, e)
  /\ UNCHANGED <<started, samples, streams>>

\* POST /api/chat with stream=true: enforce_rate_limit (deps.py), then
\* chat_endpoint lines 150-159 hands _sse_chat_generator to the response
HttpChatStream(id) ==
  /\ hpc = "idle"
  /\ requests < MaxRequests
  /\ turns < MaxTurns
  /\ AllowEffect(id)
  /\ requests' = requests + 1
  /\ cid' = id
  /\ IF AllowResult(buckets, id, now)
     THEN /\ admitted' = [admitted EXCEPT ![id] = @ + 1]
          /\ transport' = "sse"
          /\ connected' = TRUE
          /\ BeginTurn("sse_stream")
     ELSE \* HTTP 429
          /\ transport' = "none"
          /\ NoTurn("idle", <<HttpError(429, "Rate limit exceeded")>>, "rejected")
          /\ UNCHANGED <<admitted, connected, turns>>
  /\ UNCHANGED <<now, metricsVars, application_state>>
  /\ UNCHANGED taskVars

\* POST /api/chat whose body has "messages": []: FastAPI solves the route's
\* dependencies, enforce_rate_limit among them (line 147, deps.py 27-31),
\* before it validates the body parameter `payload` against ChatRequest
\* (line 149, schemas.py 21-26), and answers 422 only if no dependency raised
HttpChatInvalid(id) ==
  /\ hpc = "idle"
  /\ requests < MaxChatRequests
  /\ AllowEffect(id)
  /\ requests' = requests + 1
  /\ cid' = id
  /\ IF AllowResult(buckets, id, now)
     THEN \* HTTP 422
          /\ admitted' = [admitted EXCEPT ![id] = @ + 1]
          /\ transport' = "http"
          /\ turns' = turns + 1
          /\ NoTurn("idle", <<HttpError(422, "messages must contain at least one item")>>,
                    "invalid")
     ELSE \* HTTP 429
          /\ transport' = "none"
          /\ NoTurn("idle", <<HttpError(429, "Rate limit exceeded")>>, "rejected")
          /\ UNCHANGED <<admitted, turns>>
  /\ UNCHANGED <<now, metricsVars, connected, application_state>>
  /\ UNCHANGED taskVars

\* POST /api/chat with stream=false: enforce_rate_limit (deps.py), then
\* chat_endpoint lines 150-163 up to the await of ollama_client.chat
HttpChat(id) ==
  /\ hpc = "idle"
  /\ requests < MaxChatRequests
  /\ AllowEffect(id)
  /\ requests' = requests + 1
  /\ cid' = id
  /\ IF AllowResult(buckets, id, now)
     THEN /\ admitted' = [admitted EXCEPT ![id] = @ + 1]
          /\ transport' = "http"
          /\ connected' = TRUE
          /\ BeginTurn("chat_call")
     ELSE \* HTTP 429
          /\ transport' = "none"
          /\ NoTurn("idle", <<HttpError(429, "Rate limit exceeded")>>, "rejected")
          /\ UNCHANGED <<admitted, connected, turns>>
  /\ UNCHANGED <<now, metricsVars, application_state>>
  /\ UNCHANGED taskVars

\* ollama_client.chat returns the body r: lines 167-182
ChatReturn(r) ==
  /\ hpc = "chat_call"
  /\ LET usage == WithTotal(UsageFromChunk(r))
         lat == LatencyMs(started, now)
     IN  /\ MetricsRecord(lat, usage.prompt_tokens, usage.completion_tokens)
         /\ Turn("idle", collected, done_sent,
                 <<ChatResponse(ExtractContent(r), usage, lat)>>, <<r>>, "responded")
  /\ UNCHANGED <<limiterVars, transport, cid, connected, application_state,
                 started, turns,
                 requests, admitted, streams>>
  /\ UNCHANGED taskVars

\* ollama_client.chat raises OllamaServiceError: lines 164-165
ChatFail(err) ==
  /\ hpc = "chat_call"
  /\ Turn("idle", collected, done_sent,
          <<HttpError(MapStatus(err.status_code), err.message)>>, <<err>>,
          "service_error")
  /\ NoRecord
  /\ UNCHANGED <<limiterVars, transport, cid, connected, application_state,
                 started, turns,
                 requests, admitted, streams>>
  /\ UNCHANGED taskVars

\* one chunk arrives in _sse_chat_generator: lines 236-256
SseChunk(c) ==
  /\ hpc = "sse_stream"
  /\ Len(consumed) < MaxChunks
  /\ LET cons == Append(consumed, c)
         token == TokenFromChunk(c)
         col == IF token # NoText THEN Append(collected, token) ELSE collected
         evs == IF token # NoText THEN Append(events, TokenEvent(token)) ELSE events
         usage == WithTotal(UsageFromChunk(c))
         lat == LatencyMs(started, now)
     IN  IF c.error # ""
         THEN \* line 238: HTTPException leaves the generator after the
              \* response has begun; nothing more is sent
              /\ Turn("idle", collected, done_sent, events, cons, "error_chunk")
              /\ NoRecord
         ELSE IF c.done
         THEN /\ MetricsRecord(lat, usage.prompt_tokens, usage.completion_tokens)
              /\ Turn(LeaveLoop("sse_stream", "idle"), col, TRUE,
                      Append(evs, DoneEvent(Join(col), usage, lat)), cons,
                      LeaveLoop("no", "done"))
         ELSE /\ Turn("sse_stream", col, done_sent, evs, cons, "no")
              /\ NoRecord
  /\ UNCHANGED <<limiterVars, transport, cid, connected, application_state,
                 started, turns,
                 requests, admitted, streams>>
  /\ UNCHANGED taskVars

\* the backend's response ends: lines 259-270
SseEnd ==
  /\ hpc = "sse_stream"
  /\ LET lat == LatencyMs(started, now)
     IN  IF FinalDoneNeeded(done_sent)
         THEN /\ MetricsRecord(lat, 0, 0)
              /\ Turn("idle", collected, done_sent,
                      Append(events, DoneEvent(Join(collected), ZeroUsage, lat)),
                      consumed, "eof")
         ELSE /\ Turn("idle", collected, done_sent, events, consumed, "eof")
              /\ NoRecord
  /\ UNCHANGED <<limiterVars, transport, cid, connected, application_state,
                 started, turns,
                 requests, admitted, streams>>
  /\ UNCHANGED taskVars

\* stream_chat raises OllamaServiceError: lines 257-258 raise HTTPException
\* out of the generator, after the response has begun
SseFail(err) ==
  /\ hpc = "sse_stream"
  /\ err.kind = "status" => consumed = << >>
  /\ Turn("idle", collected, done_sent, events, consumed, "service_error")
  /\ NoRecord
  /\ UNCHANGED <<limiterVars, transport, cid, connected, application_state,
                 started, turns,
                 requests, admitted, streams>>
  /\ UNCHANGED taskVars

\* the client goes away: the response task is cancelled, and the generator
\* with it
SseClientDisconnect ==
  /\ hpc = "sse_stream"
  /\ connected' = FALSE
  /\ Turn("idle", collected, done_sent, events, consumed, "disconnected")
  /\ NoRecord
  /\ UNCHANGED <<limiterVars, transport, cid, application_state, started,
                 turns, requests, admitted, streams>>
  /\ UNCHANGED taskVars

\* a WebSocket opens on /ws/chat: enforce_rate_limit_ws (deps.py), line 201
WsConnect(id) ==
  /\ hpc = "idle"
  /\ requests < MaxRequests
  /\ AllowEffect(id)
  /\ requests' = requests + 1
  /\ cid' = id
  /\ IF AllowResult(buckets, id, now)
     THEN /\ admitted' = [admitted EXCEPT ![id] = @ + 1]
          /\ transport' = "ws"
          /\ connected' = TRUE
          /\ application_state' = "CONNECTED"
          /\ NoTurn("ws_recv", << >>, "no")
     ELSE \* WebSocketException, close code 1008
          /\ transport' = "none"
          /\ NoTurn("idle", << >>, "rejected")
          /\ UNCHANGED <<admitted, connected, application_state>>
  /\ UNCHANGED <<now, metricsVars, turns>>
  /\ UNCHANGED taskVars

\* one inbound message: lines 203-226 and 274-276
WsReceive(m) ==
  /\ hpc = "ws_recv"
  /\ connected
  /\ application_state = "CONNECTED"
  /\ turns < MaxTurns
  /\ UNCHANGED <<cid, application_state>>
  /\ CASE m = "chat" ->
            /\ BeginTurn("ws_stream")
            /\ UNCHANGED connected
       [] m = "bad_json" ->
            \* lines 207-209
            /\ NoTurn("ws_recv", <<ErrorEvent("Invalid message")>>, "malformed")
            /\ turns' = turns + 1
            /\ UNCHANGED connected
       [] m = "bad_payload" ->
            \* lines 222-224
            /\ NoTurn("ws_recv", <<ErrorEvent("Invalid payload")>>, "malformed")
            /\ turns' = turns + 1
            /\ UNCHANGED connected
       [] m = "not_object" ->
            \* line 211: data.get raises AttributeError out of the handler
            /\ NoTurn("idle", << >>, "crashed")
            /\ turns' = turns + 1
            /\ connected' = FALSE
  /\ UNCHANGED <<limiterVars, metricsVars, transport, requests, admitted>>
  /\ UNCHANGED taskVars

\* what websocket.send_json does when the client has gone, which the
\* installed Starlette and server decide: "disconnect" raises
\* WebSocketDisconnect and sets application_state to DISCONNECTED, "other"
\* raises the server's own exception and leaves application_state alone
SendFailures == {"disconnect", "other"}

\* the frames after frames q were sent to a connected client
Sent(q) == IF connected /\ q # << >> THEN events \o q ELSE events

\* a send_json inside the try block of _handle_websocket_chat fails with f.
\* "disconnect": line 316 catches it, line 317 returns to the receive loop.
\* "other": line 320 catches it and _send_ws_error (line 322) sends again,
\* which raises out of _handle_websocket_chat and of websocket_chat.
SendFailed(f, col, cons) ==
  /\ Turn(IF f = "disconnect" THEN "ws_recv" ELSE "idle", col, done_sent,
          events, cons, "disconnected")
  /\ application_state' =
       IF f = "disconnect" THEN "DISCONNECTED" ELSE application_state

\* one chunk arrives in _handle_websocket_chat: lines 278-304
WsChunk(c, f) ==
  /\ hpc = "ws_stream"
  /\ Len(consumed) < MaxChunks
  /\ LET cons == Append(consumed, c)
         token == TokenFromChunk(c)
         col == IF token # NoText THEN Append(collected, token) ELSE collected
         tok == IF token # NoText THEN <<TokenEvent(token)>> ELSE << >>
         usage == WithTotal(UsageFromChunk(c))
         lat == LatencyMs(started, now)
     IN  IF c.error # ""
         THEN \* lines 284-285
              /\ IF connected
                 THEN /\ Turn("ws_recv", collected, done_sent,
                              Sent(<<ErrorEvent(c.error)>>), cons, "error_chunk")
                      /\ UNCHANGED application_state
                 ELSE SendFailed(f, collected, cons)
              /\ NoRecord
         ELSE IF token # NoText /\ ~connected
         THEN \* line 289 raises
              /\ SendFailed(f, col, cons)
              /\ NoRecord
         ELSE IF c.done
         THEN /\ MetricsRecord(lat, usage.prompt_tokens, usage.completion_tokens)
              /\ IF connected
                 THEN /\ Turn(LeaveLoop("ws_stream", "ws_recv"), col, TRUE,
                              Sent(tok \o <<DoneEvent(Join(col), usage, lat)>>),
                              cons, LeaveLoop("no", "done"))
                      /\ UNCHANGED application_state
                 ELSE SendFailed(f, col, cons)
         ELSE /\ Turn("ws_stream", col, done_sent, Sent(tok), cons, "no")
              /\ UNCHANGED application_state
              /\ NoRecord
  /\ UNCHANGED <<limiterVars, transport, cid, connected, started, turns,
                 requests, admitted, streams>>
  /\ UNCHANGED taskVars

\* the backend's response ends: lines 305-315
WsEnd(f) ==
  /\ hpc = "ws_stream"
  /\ LET lat == LatencyMs(started, now)
     IN  IF FinalDoneNeeded(done_sent)
         THEN /\ MetricsRecord(lat, 0, 0)
              /\ IF connected
                 THEN /\ Turn("ws_recv", collected, done_sent,
                              Sent(<<DoneEvent(Join(collected), ZeroUsage, lat)>>),
                              consumed, "eof")
                      /\ UNCHANGED application_state
                 ELSE SendFailed(f, collected, consumed)
         ELSE /\ Turn("ws_recv", collected, done_sent, events, consumed, "eof")
              /\ UNCHANGED application_state
              /\ NoRecord
  /\ UNCHANGED <<limiterVars, transport, cid, connected, started, turns,
                 requests, admitted, streams>>
  /\ UNCHANGED taskVars

\* stream_chat raises OllamaServiceError: lines 318-319 and _send_ws_error.
\* A send that fails there, in the except clause, raises out of
\* _handle_websocket_chat and of websocket_chat whatever it raises.
WsFail(err, f) ==
  /\ hpc = "ws_stream"
  /\ err.kind = "status" => consumed = << >>
  /\ IF connected
     THEN /\ Turn("ws_recv", collected, done_sent,
                  Sent(<<ErrorEvent(err.message)>>), consumed, "service_error")
          /\ UNCHANGED application_state
     ELSE /\ Turn("idle", collected, done_sent, events, consumed, "disconnected")
          /\ application_state' =
               IF f = "disconnect" THEN "DISCONNECTED" ELSE application_state
  /\ NoRecord
  /\ UNCHANGED <<limiterVars, transport, cid, connected, started, turns,
                 requests, admitted, streams>>
  /\ UNCHANGED taskVars

\* the client goes away during a turn; the handler learns of it when it sends
WsClientDisconnect ==
  /\ hpc = "ws_stream"
  /\ connected
  /\ connected' = FALSE
  /\ UNCHANGED <<limiterVars, metricsVars, hpc, transport, cid,
                 application_state, turnVars, turns, requests, admitted,
                 streams>>
  /\ UNCHANGED taskVars

\* lines 204-206: receive_json raises WebSocketDisconnect, the loop ends
WsReceiveDisconnect ==
  /\ hpc = "ws_recv"
  /\ application_state = "CONNECTED"
  /\ hpc' = "idle"
  /\ connected' = FALSE
  /\ UNCHANGED <<limiterVars, metricsVars, transport, cid, application_state,
                 turnVars, turns, requests, admitted, streams>>
  /\ UNCHANGED taskVars

\* line 204 on a connection whose application_state is DISCONNECTED:
\* receive_json raises RuntimeError without waiting, line 207 catches it,
\* _send_ws_error returns at line 376 and line 209 continues the loop
WsReceiveNotConnected ==
  /\ hpc = "ws_recv"
  /\ application_state = "DISCONNECTED"
  /\ UNCHANGED vars

\* time passes
StreamTick ==
  /\ now < MaxStreamTime
  /\ now' = now + 1
  /\ UNCHANGED <<buckets, log, solo, metricsVars, streamVars>>
  /\ UNCHANGED taskVars

StreamVarsInit ==
  /\ hpc = "idle"
  /\ transport = "none"
  /\ cid = "A"
  /\ connected = FALSE
  /\ application_state = "CONNECTING"
  /\ started = 0
  /\ collected = << >>
  /\ done_sent = FALSE
  /\ events = << >>
  /\ consumed = << >>
  /\ ended = "no"
  /\ samples = << >>
  /\ turns = 0
  /\ requests = 0
  /\ admitted = [id \in Ids |-> 0]
  /\ streams = [id \in Ids |-> 0]

\* the limiter after client A made n calls at time 0
RECURSIVE BurstBuckets(_)
BurstBuckets(n) ==
  IF n = 0 THEN << >> ELSE AllowBuckets(BurstBuckets(n - 1), "A", 0)
BurstLog(n) ==
  [k \in 1..n |-> [t |-> 0,
                   ok |-> AllowResult(BurstBuckets(k - 1), "A", 0),
                   alone |-> AllowResult(BurstBuckets(k - 1), "A", 0)]]

\* the gateway serves its first chat request either fresh or after client A
\* has spent its burst on other rate-limited requests (GET /api/models)
StreamInit ==
  /\ now = 0
  /\ \E n \in {0, Burst + 1} :
       /\ buckets = BurstBuckets(n)
       /\ solo = [id \in Ids |-> IF id = "A" THEN BurstBuckets(n) ELSE << >>]
       /\ log = [id \in Ids |-> IF id = "A" THEN BurstLog(n) ELSE << >>]
  /\ MetricsInit
  /\ StreamVarsInit
  /\ TaskVarsInit

StreamNext ==
  \/ StreamTick
  \/ \E id \in Ids : HttpChatStream(id)
  \/ \E c \in Chunks : SseChunk(c)
  \/ SseEnd
  \/ \E err \in ServiceErrors : SseFail(err)
  \/ SseClientDisconnect
  \/ \E id \in Ids : WsConnect(id)
  \/ \E m \in Messages : WsReceive(m)
  \/ \E c \in Chunks, f \in SendFailures : WsChunk(c, f)
  \/ \E f \in SendFailures : WsEnd(f)
  \/ \E err \in ServiceErrors, f \in SendFailures : WsFail(err, f)
  \/ WsClientDisconnect
  \/ WsReceiveDisconnect
  \/ WsReceiveNotConnected

\* chunks for every combination of a response text, a message content and
\* the done flag, and one chunk with an error indicator
TokenChunks ==
  { Chunk("", r, m, d, NoCount, NoCount) :
      r \in {NoText, Hi}, m \in {NoText, Bang}, d \in BOOLEAN }
  \cup { Chunk("boom", Hi, Bang, FALSE, NoCount, NoCount) }

\* streaming turns over the chunks of TokenChunks
TokenNext ==
  \/ \E id \in Ids : HttpChatStream(id)
  \/ \E c \in TokenChunks : SseChunk(c)
  \/ SseEnd
  \/ SseClientDisconnect
  \/ \E id \in Ids : WsConnect(id)
  \/ WsReceive("chat")
  \/ \E c \in TokenChunks, f \in SendFailures : WsChunk(c, f)
  \/ \E f \in SendFailures : WsEnd(f)
  \/ WsClientDisconnect
  \/ WsReceiveDisconnect
  \/ WsReceiveNotConnected

\* POST /api/chat without a stream
ChatNext ==
  \/ StreamTick
  \/ \E id \in Ids : HttpChatInvalid(id)
  \/ \E id \in Ids : HttpChat(id)
  \/ \E r \in Responses : ChatReturn(r)
  \/ \E err \in ServiceErrors : ChatFail(err)

\* ============================================== concurrent allow calls

\* A task can be suspended where allow awaits: at the entry of
\* `async with self._lock` (line 21).  The model lets the other tasks run
\* there, and also between the acquisition, the body and the release of the
\* lock, which contains every schedule of the event loop.

\* line 20: a task calls allow(id) and reads the clock
AllowCall(k, id) ==
  /\ tpc[k] = "idle"
  /\ tpc' = [tpc EXCEPT ![k] = "lock"]
  /\ tclient' = [tclient EXCEPT ![k] = id]
  /\ tnow' = [tnow EXCEPT ![k] = now]
  /\ UNCHANGED <<limiterVars, metricsVars, streamVars, rlock>>

\* line 21: the lock is acquired once it is free
AllowAcquire(k) ==
  /\ tpc[k] = "lock"
  /\ rlock = 0
  /\ rlock' = k
  /\ tpc' = [tpc EXCEPT ![k] = "body"]
  /\ UNCHANGED <<limiterVars, metricsVars, streamVars, tclient, tnow>>

\* lines 22-37, which hold no await
AllowBody(k) ==
  /\ tpc[k] = "body"
  /\ AllowEffectAt(tclient[k], tnow[k])
  /\ tpc' = [tpc EXCEPT ![k] = "unlock"]
  /\ UNCHANGED <<now, metricsVars, streamVars, tclient, tnow, rlock>>

\* the end of the `async with` block: the lock is released, allow returns
AllowRelease(k) ==
  /\ tpc[k] = "unlock"
  /\ rlock' = IF rlock = k THEN 0 ELSE rlock
  /\ tpc' = [tpc EXCEPT ![k] = "done"]
  /\ UNCHANGED <<limiterVars, metricsVars, streamVars, tclient, tnow>>

\* time passes
TaskTick ==
  /\ now < MaxStreamTime
  /\ now' = now + 1
  /\ UNCHANGED <<buckets, log, solo, metricsVars, streamVars, taskVars>>

\* the tasks start on a limiter that client A has called n times at time 0
TaskStarts == {0, Burst - 1}

TasksInit ==
  /\ now = 0
  /\ \E n \in TaskStarts :
       /\ buckets = BurstBuckets(n)
       /\ solo = [id \in Ids |-> IF id = "A" THEN BurstBuckets(n) ELSE << >>]
       /\ log = [id \in Ids |-> IF id = "A" THEN BurstLog(n) ELSE << >>]
  /\ MetricsInit
  /\ StreamVarsInit
  /\ TaskVarsInit

TasksNext ==
  \/ TaskTick
  \/ \E k \in Tasks :
       \/ \E id \in Ids : AllowCall(k, id)
       \/ AllowAcquire(k)
       \/ AllowBody(k)
       \/ AllowRelease(k)

\* ========================================================= specifications

Init == LimiterInit /\ MetricsInit /\ StreamVarsInit

SpecLimiter == Init /\ [][LimiterNext]_vars

SpecMetrics == Init /\ [][MetricsNext]_vars

SpecStream == StreamInit /\ [][StreamNext]_vars

SpecChat == StreamInit /\ [][ChatNext]_vars

SpecTokens == StreamInit /\ [][TokenNext]_vars

\* a fresh limiter and session beside the collector whose window is filled
SnapshotStart == LimiterInit /\ SnapshotInit /\ StreamVarsInit

SpecSnapshot == SnapshotStart /\ [][SnapshotNext]_vars

SpecTasks == TasksInit /\ [][TasksNext]_vars

\* the event loop runs every task that is ready to run
TasksFairness ==
  \A k \in Tasks :
    WF_vars(AllowAcquire(k) \/ AllowBody(k) \/ AllowRelease(k))

SpecTasksFair == SpecTasks /\ TasksFairness

\* ==================================================== RateLimiter: claims

\* the n-th call of id was made with no time elapsed since its first call
Immediate(id, n) == log[id][n].t = log[id][1].t

\* C6, first part: of the calls a fresh identity makes with no time
\* elapsing, the first Burst return true and every later one returns false.
BurstThenReject ==
  \A id \in Ids : \A n \in 1..Len(log[id]) :
    Immediate(id, n) => (log[id][n].ok <=> n <= Burst)

\* the call after the rejected (Burst+1)-th immediate call came after a wait
\* of at least lo and less than hi ticks; it returns true and every further
\* call at that same instant returns false
OneMoreAfterWait(id, lo, hi) ==
  LET L == log[id]
  IN  ( /\ Len(L) >= Burst + 2
        /\ Immediate(id, Burst + 1)
        /\ L[Burst + 2].t >= L[1].t + lo
        /\ L[Burst + 2].t < L[1].t + hi )
      => /\ L[Burst + 2].ok
         /\ \A n \in (Burst + 3)..Len(L) : L[n].t = L[Burst + 2].t => ~L[n].ok

\* C6 as stated: Burst immediate calls return true, the next returns false,
\* and after any wait of at least 1/rate seconds exactly one more call
\* returns true.
C6_AsStated ==
  /\ BurstThenReject
  /\ \A id \in Ids : OneMoreAfterWait(id, Sub, MaxTime + Sub + 1)

\* C6 amended: Burst immediate calls return true, the next returns false,
\* and after a wait of at least 1/rate and less than 2/rate seconds exactly
\* one more call returns true.
C6_BurstThenOnePerPeriod ==
  /\ BurstThenReject
  /\ \A id \in Ids : OneMoreAfterWait(id, Sub, 2 * Sub)

C6_Witness ==
  LET L == log["A"]
  IN  /\ Len(L) >= Burst + 3
      /\ Immediate("A", Burst + 1)
      /\ L[Burst + 2].t >= L[1].t + Sub
      /\ L[Burst + 2].t < L[1].t + 2 * Sub
      /\ L[Burst + 3].t = L[Burst + 2].t
      /\ L[Burst + 2].ok /\ ~L[Burst + 3].ok

\* C7: bucket isolation.  Every identity has a bucket exactly when it has
\* made a call, and its bucket and every result it was given equal those of
\* a limiter on which only its own calls were made (solo, alone).
C7_BucketIsolation ==
  \A id \in Ids :
    /\ (id \in DOMAIN buckets) <=> (Len(log[id]) > 0)
    /\ id \in DOMAIN buckets => buckets[id] = solo[id][id]
    /\ \A n \in 1..Len(log[id]) : log[id][n].ok = log[id][n].alone

\* A was rejected and, one tick later (A still short of a token), B's first
\* call was admitted
C7_Witness ==
  /\ Len(log["B"]) >= 1
  /\ log["B"][1].ok
  /\ \E n \in 1..Len(log["A"]) :
       /\ ~log["A"][n].ok
       /\ log["B"][1].t = log["A"][n].t + 1
       /\ log["A"][Len(log["A"])].t = log["A"][n].t
  /\ buckets["A"].tokens + Rate < One

\* C8: every bucket holds between 0 and capacity tokens.
C8_TokensInRange ==
  \A id \in DOMAIN buckets :
    /\ 0 <= buckets[id].tokens
    /\ buckets[id].tokens <= Capacity

\* A is drained to zero; B came back after a wait that refills past the
\* capacity and holds capacity - 1 after its call
C8_Witness ==
  /\ DOMAIN buckets = Ids
  /\ buckets["A"].tokens = 0
  /\ Len(log["B"]) = 2
  /\ (Capacity - One) + (log["B"][2].t - log["B"][1].t) * Rate > Capacity
  /\ buckets["B"].tokens = Capacity - One

\* C19: an allow call that finds fewer than 1.0 tokens after the refill
\* returns false and stores the refilled value and the current time,
\* consuming nothing, so the stored tokens never go down; any other call
\* returns true and stores the refilled value less 1.0 and the current time.
\* No other bucket changes.
C19_RejectStoresRefill ==
  [][\A id \in Ids :
       Len(log'[id]) > Len(log[id]) =>
         LET fresh == id \notin DOMAIN buckets
             old == IF fresh THEN Capacity ELSE buckets[id].tokens
             since == IF fresh THEN now ELSE buckets[id].timestamp
             gain == (IF now > since THEN now - since ELSE 0) * Rate
             refilled == IF old + gain > Capacity THEN Capacity ELSE old + gain
             ok == log'[id][Len(log'[id])].ok
         IN  /\ ok = (refilled >= One)
             /\ buckets'[id].timestamp = now
             /\ buckets'[id].tokens = IF ok THEN refilled - One ELSE refilled
             /\ ~ok => buckets'[id].tokens >= old
             /\ \A x \in DOMAIN buckets \ {id} : buckets'[x] = buckets[x]]_vars

\* client A's last call, later than the one before it, was rejected and
\* left half a token and its own time in the bucket
C19_Witness ==
  LET n == Len(log["A"])
  IN  /\ n >= 2
      /\ ~log["A"][n].ok
      /\ log["A"][n].t > log["A"][n - 1].t
      /\ buckets["A"].timestamp = log["A"][n].t
      /\ buckets["A"].tokens > 0
      /\ buckets["A"].tokens < One

\* the tasks whose call for id has run the body of allow
Finished(id) == {k \in Tasks : tclient[k] = id /\ tpc[k] \in {"unlock", "done"}}

\* the calls among the last n of id's log that returned true
AdmittedOfLast(id, n) ==
  Cardinality({i \in (Len(log[id]) - n + 1)..Len(log[id]) : log[id][i].ok})

\* the tokens id's bucket held at time t when the concurrent calls began,
\* after `before` calls at time 0
TokensAt(before, t) ==
  LET stored == (Burst - (IF before < Burst THEN before ELSE Burst)) * One
  IN  IF stored + t * Rate > Capacity THEN Capacity ELSE stored + t * Rate

\* k concurrent calls for one identity that all read the same clock value,
\* in whatever order the tasks were run: min(k, floor(t)) of them returned
\* true and the bucket holds t less the number admitted
NoLostUpdate ==
  \A id \in Ids :
    LET k == Cardinality(Finished(id))
        before == Len(log[id]) - k
    IN  (k > 0 /\ \A i, j \in Finished(id) : tnow[i] = tnow[j]) =>
          LET t == TokensAt(before, tnow[CHOOSE i \in Finished(id) : TRUE])
              whole == t \div One
              won == AdmittedOfLast(id, k)
          IN  /\ won = (IF k < whole THEN k ELSE whole)
              /\ buckets[id].tokens = t - won * One

\* the lock is held by one task at a time, which is running the body or
\* about to release, never waiting
LockHeldByRunner ==
  /\ \A k \in Tasks : tpc[k] \in {"body", "unlock"} <=> rlock = k
  /\ \A k \in Tasks : tpc[k] = "lock" => (rlock = 0 \/ rlock # k)

\* C20: bucket mutation is atomic under concurrency: for every interleaving
\* of k concurrent allow calls on one identity that read the same clock
\* value, with the bucket holding t tokens, exactly min(k, floor(t)) calls
\* return true and the bucket ends with t less the number admitted; and
\* no call stays in flight for ever: every call that began returns.
C20_AtomicUnderConcurrency ==
  /\ []NoLostUpdate
  /\ []LockHeldByRunner
  /\ []<>(\A k \in Tasks : tpc[k] \in {"idle", "done"})

\* three calls for client A read the same clock value with 1.5 tokens in
\* the bucket: one has returned, one has run the body and still holds the
\* lock, one waits for the lock; one of the two that ran was admitted
C20_Witness ==
  /\ \A k \in Tasks : tclient[k] = "A" /\ tnow[k] = 1
  /\ \E i, j, k \in Tasks :
       tpc[i] = "done" /\ tpc[j] = "unlock" /\ tpc[k] = "lock"
  /\ Len(log["A"]) = Burst - 1 + 2
  /\ AdmittedOfLast("A", 2) = 1
  /\ buckets["A"].tokens = Rate

\* the calls among the i-th to the j-th of client id that returned true
AdmittedBetween(id, i, j) == Cardinality({k \in i..j : log[id][k].ok})

\* C24: for every client, the calls that return true within any time
\* interval of length T number at most burst + rate * T.  The calls made
\* within an interval are consecutive calls of the client, so it suffices
\* that between any call and any later call, both included, the admitted
\* calls (in token units) are at most the capacity plus the refill of the
\* time between the two.  And the stored timestamp of a bucket never
\* decreases, nor is a bucket ever removed.
C24_RateBound ==
  /\ [](\A id \in Ids : \A i, j \in 1..Len(log[id]) :
          i <= j =>
            AdmittedBetween(id, i, j) * One
              <= Capacity + (log[id][j].t - log[id][i].t) * Rate)
  /\ [](\A id \in Ids : \A i \in 1..Len(log[id]) - 1 :
          log[id][i].t <= log[id][i + 1].t)
  /\ [][\A id \in DOMAIN buckets :
          /\ id \in DOMAIN buckets'
          /\ buckets'[id].timestamp >= buckets[id].timestamp]_vars

\* client A spent its burst at once, was refused half a refill period
\* later and admitted after a whole one: burst + 1 admissions within one
\* period, which is the bound, and the timestamp has moved with the calls
C24_Witness ==
  /\ Len(log["A"]) = Burst + 2
  /\ \A k \in 1..Burst : log["A"][k].t = 0 /\ log["A"][k].ok
  /\ log["A"][Burst + 1].t = 1
  /\ ~log["A"][Burst + 1].ok
  /\ log["A"][Burst + 2].t = Sub
  /\ log["A"][Burst + 2].ok
  /\ AdmittedBetween("A", 1, Burst + 2) = Burst + 1
  /\ buckets["A"].timestamp = Sub

\* =============================================== MetricsCollector: claims

RecordPcs == {"rec_lock", "rec_requests_load", "rec_requests_store",
              "rec_prompt_load", "rec_prompt_store", "rec_completion_load",
              "rec_completion_store", "rec_append", "rec_unlock"}

\* C9: no increment of requests_total is lost or counted twice.  The counter
\* lies between the record calls returned and the record calls begun, so it
\* equals n once n calls have returned and none is in progress; and the
\* requests_total a snapshot reports lies between the calls that had returned
\* when the snapshot was called and the calls begun.
C9_RequestsTotalCounts ==
  /\ returned <= requests_total
  /\ requests_total <= begun
  /\ (\A t \in Threads : mpc[t] \notin RecordPcs) => requests_total = returned
  /\ \A t \in Threads :
       mpc[t] \in {"snap_prompt", "snap_completion", "snap_return"} =>
         /\ snap[t].before <= snap[t].requests_total
         /\ snap[t].requests_total <= begun

\* a snapshot called after two record calls by different threads contended
\* for the lock reports 2, while the other thread waits to record a third
C9_Witness ==
  /\ mpc["t1"] = "snap_completion"
  /\ snap["t1"].before = 2
  /\ snap["t1"].requests_total = 2
  /\ mpc["t2"] = "rec_lock"
  /\ begun = 3

\* the last n items of sequence q (all of q when it is shorter)
LastN(q, n) == SubSeq(q, Len(q) - Min(n, Len(q)) + 1, Len(q))

\* C10: the latency window holds exactly the min(n, capacity) most recently
\* recorded samples (clamped at zero), oldest first; a snapshot copies that
\* window, so the window it uses has min(n, capacity) samples for the n
\* it reports as requests_total.
C10_WindowIsMostRecent ==
  /\ Len(latencies) = Min(Len(recorded), WindowSize)
  /\ latencies = [i \in 1..Min(Len(recorded), WindowSize) |->
                    Clamp(LastN(recorded, WindowSize)[i])]
  /\ \A t \in Threads :
       mpc[t] \in {"snap_requests", "snap_prompt", "snap_completion"} =>
         snap[t].latencies = latencies
  /\ \A t \in Threads :
       mpc[t] \in {"snap_prompt", "snap_completion", "snap_return"} =>
         Len(snap[t].latencies) = Min(snap[t].requests_total, WindowSize)

\* capacity + 1 samples were recorded, the first differs from every later
\* one, and the window no longer holds it
C10_Witness ==
  /\ Len(recorded) = WindowSize + 1
  /\ recorded[1] = 2
  /\ \A i \in 2..Len(recorded) : recorded[i] # 2
  /\ Len(latencies) = WindowSize
  /\ latencies[1] = Clamp(recorded[2])
  /\ latencies[WindowSize] = Clamp(recorded[WindowSize + 1])

\* thread t takes the step of record from label a to label b
RecordStep(t, a, b) == mpc[t] = a /\ mpc'[t] = b

\* C21: record clamps negative inputs at zero before accounting.  A record
\* call adds 1 to requests_total whatever its arguments, adds its prompt
\* and its completion token count to the totals when they are positive and
\* 0 when they are negative, and appends its latency to the window when it
\* is positive and 0 when it is negative; so the totals and the items of
\* the window are never negative.
C21_RecordClampsNegatives ==
  /\ [][\A t \in Threads :
          /\ RecordStep(t, "rec_requests_store", "rec_prompt_load") =>
                requests_total' = requests_total + 1
          /\ RecordStep(t, "rec_prompt_store", "rec_completion_load") =>
                prompt_tokens' =
                  prompt_tokens + (IF margs[t].p < 0 THEN 0 ELSE margs[t].p)
          /\ RecordStep(t, "rec_completion_store", "rec_append") =>
                completion_tokens' =
                  completion_tokens + (IF margs[t].c < 0 THEN 0 ELSE margs[t].c)
          /\ RecordStep(t, "rec_append", "rec_unlock") =>
                /\ latencies' # << >>
                /\ latencies'[Len(latencies')] =
                     (IF margs[t].lat < 0 THEN 0 ELSE margs[t].lat)]_vars
  /\ [](/\ prompt_tokens >= 0
        /\ completion_tokens >= 0
        /\ \A i \in 1..Len(latencies) : latencies[i] >= 0)

\* after a record call with positive arguments, a record call whose three
\* arguments are negative has returned: the window ends with 0, the token
\* totals are those of the first call, and requests_total is 2
C21_Witness ==
  /\ recorded = <<1, 0 - 1>>
  /\ latencies = <<1, 0>>
  /\ requests_total = 2
  /\ prompt_tokens = 2
  /\ completion_tokens = 1
  /\ returned = 2

\* the record call that recorded latency l (the samples differ in latency)
SampleOf(l) == CHOOSE s \in Samples : s.lat = l

\* the prompt and completion token counts the record calls of q added
RECURSIVE PromptSum(_)
PromptSum(q) ==
  IF q = << >> THEN 0
  ELSE (IF SampleOf(Head(q)).p < 0 THEN 0 ELSE SampleOf(Head(q)).p)
       + PromptSum(Tail(q))

RECURSIVE CompletionSum(_)
CompletionSum(q) ==
  IF q = << >> THEN 0
  ELSE (IF SampleOf(Head(q)).c < 0 THEN 0 ELSE SampleOf(Head(q)).c)
       + CompletionSum(Tail(q))

SnapshotPcs == {"snap_lock", "snap_latencies", "snap_requests", "snap_prompt",
                "snap_completion", "snap_percentiles", "snap_return"}

\* C22: requests_total and the two token totals never decrease, no step of
\* snapshot changes them, and they count every record call made since the
\* collector was built, also the calls whose samples the full latency
\* window has already dropped: while no record call is in progress,
\* requests_total is the number of record calls made and each token total
\* is the sum over all of them.
C22_TotalsCumulative ==
  /\ [][/\ requests_total' >= requests_total
        /\ prompt_tokens' >= prompt_tokens
        /\ completion_tokens' >= completion_tokens]_vars
  /\ [][(\E t \in Threads : /\ mpc'[t] # mpc[t]
                             /\ (mpc[t] \in SnapshotPcs \/ mpc'[t] \in SnapshotPcs)) =>
          /\ requests_total' = requests_total
          /\ prompt_tokens' = prompt_tokens
          /\ completion_tokens' = completion_tokens]_vars
  /\ []((\A t \in Threads : mpc[t] \notin RecordPcs) =>
          /\ requests_total = Len(recorded)
          /\ prompt_tokens = PromptSum(recorded)
          /\ completion_tokens = CompletionSum(recorded))

\* one record call more than the window holds has returned, the window is
\* full and has dropped the first sample, and the totals, which a snapshot
\* has just read, still count the dropped call
C22_Witness ==
  /\ mpc["t1"] = "snap_return"
  /\ mpc["t2"] = "idle"
  /\ Len(recorded) = WindowSize + 1
  /\ Len(latencies) = WindowSize
  /\ recorded[1] = 1
  /\ \A i \in 2..Len(recorded) : recorded[i] = 2
  /\ requests_total = WindowSize + 1
  /\ prompt_tokens = 2
  /\ completion_tokens = 1 + 3 * WindowSize
  /\ snap["t1"].requests_total = WindowSize + 1

\* the i-th smallest latency of the window q, by rank
NthSmallest(q, i) ==
  CHOOSE v \in {q[j] : j \in 1..Len(q)} :
    /\ Cardinality({j \in 1..Len(q) : q[j] < v}) < i
    /\ i <= Cardinality({j \in 1..Len(q) : q[j] <= v})

\* the value at fractional rank (n - 1) * percentile of the window q, linearly
\* interpolated between the two neighbouring ranks, in hundredths
Interpolated(q, percentile) ==
  LET k == (Len(q) - 1) * percentile
      below == NthSmallest(q, (k \div PctScale) + 1)
  IN IF k % PctScale = 0 THEN below * PctScale
     ELSE below * PctScale
          + (k % PctScale) * (NthSmallest(q, (k \div PctScale) + 2) - below)

SameItems(q, r) ==
  /\ Len(q) = Len(r)
  /\ \A v \in {r[j] : j \in 1..Len(r)} :
       Cardinality({j \in 1..Len(q) : q[j] = v})
         = Cardinality({j \in 1..Len(r) : r[j] = v})

\* C11: the p50 and p95 a snapshot reports are the values at fractional rank
\* (n - 1) * p of the sorted current window, linearly interpolated between
\* the two neighbouring ranks: they lie between the window's minimum and
\* maximum, are 25 and 38.5 for a window holding 10, 20, 30 and 40, and are
\* both 0 for the empty window.
C11_PercentilesInterpolate ==
  \A t \in Threads :
    mpc[t] = "snap_return" =>
      LET p50 == snap[t].latency_ms_p50
          p95 == snap[t].latency_ms_p95
          n == Len(latencies)
      IN /\ n = 0 => (p50 = 0 /\ p95 = 0)
         /\ n > 0 =>
              /\ p50 = Interpolated(latencies, 50)
              /\ p95 = Interpolated(latencies, 95)
              /\ \A p \in {p50, p95} :
                   /\ NthSmallest(latencies, 1) * PctScale <= p
                   /\ p <= NthSmallest(latencies, n) * PctScale
         /\ SameItems(latencies, <<10, 20, 30, 40>>) =>
              (p50 = 2500 /\ p95 = 3850)

\* a snapshot of the unsorted window 40, 10, 30, 20 is about to return 25 and
\* 38.5
C11_Witness ==
  \E t \in Threads :
    /\ mpc[t] = "snap_return"
    /\ latencies = <<40, 10, 30, 20>>
    /\ snap[t].latency_ms_p50 = 2500
    /\ snap[t].latency_ms_p95 = 3850

\* ============================================= streaming handlers: claims

IsTerminal(e) == e.type \in {"done", "error"}
Terminals(evs) == Cardinality({i \in 1..Len(evs) : IsTerminal(evs[i])})

\* the text of the tokens of a chunk sequence, in order
RECURSIVE TextOf(_)
TextOf(q) ==
  IF q = << >> THEN NoText ELSE TokenFromChunk(Head(q)) \o TextOf(Tail(q))

\* C1: a streaming turn whose backend chunk sequence ended (with a done
\* chunk, without one, or at an error chunk) while the client stayed
\* connected has sent exactly one terminal event (Done or Error), on either
\* transport.
C1_ExactlyOneTerminal ==
  ended \in {"done", "eof", "error_chunk"} => Terminals(events) = 1

\* a terminal event is the last event sent
TerminalIsLast ==
  \A i \in 1..Len(events) : IsTerminal(events[i]) => i = Len(events)

\* C2: within a turn every Token event precedes the terminal event, there is
\* at most one terminal event, and once it is sent the turn sends no further
\* event and takes no further chunk from the backend.
C2_TokensThenTerminal ==
  /\ []TerminalIsLast
  /\ [][ (Terminals(events) > 0 /\ turns' = turns /\ requests' = requests)
           => (events' = events /\ consumed' = consumed) ]_vars

\* a Done was sent for a done chunk that carried a token, and the backend
\* could have yielded more chunks
C2_Witness ==
  /\ ended = "done"
  /\ Len(consumed) < MaxChunks
  /\ Len(events) = 2
  /\ events[1].type = "token"
  /\ events[2].type = "done"

\* C3: when the backend stream ends with no done chunk and no error chunk
\* (and the client is connected), the turn has sent exactly one Done event
\* whose content is the text accumulated so far and whose usage is all
\* zeros, and has recorded exactly one metrics sample with zero prompt and
\* completion token counts.
C3_TruncatedStreamDone ==
  ( /\ ended = "eof"
    /\ \A i \in 1..Len(consumed) : ~consumed[i].done /\ consumed[i].error = "" )
  => /\ Terminals(events) = 1
     /\ events[Len(events)].type = "done"
     /\ events[Len(events)].content = TextOf(consumed)
     /\ events[Len(events)].usage.prompt_tokens = 0
     /\ events[Len(events)].usage.completion_tokens = 0
     /\ events[Len(events)].usage.total_tokens = 0
     /\ Len(samples) = 1
     /\ samples[1].p = 0
     /\ samples[1].c = 0

\* a stream of two tokens ended without a done chunk
C3_Witness ==
  /\ ended = "eof"
  /\ Len(consumed) = 2
  /\ Len(events) = 3
  /\ events[3].type = "done"
  /\ events[3].content = Hi \o Bang

\* C4: a streaming turn whose backend fails with a service error, before the
\* first chunk or after some Token events, has sent exactly one terminal
\* event, on either transport.
C4_ServiceErrorOneTerminal ==
  ended = "service_error" => Terminals(events) = 1

\* C5: every backend stream started was admitted: for each identity, each
\* stream (each HTTP chat request, each WebSocket turn) has an admission
\* check of its own that returned true.
C5_EveryStreamAdmitted ==
  \A id \in Ids : streams[id] <= admitted[id]

\* C12: on a WebSocket connection every inbound message that is not a valid
\* chat request (text that is not JSON, JSON that is no object, an object
\* that fails validation) is answered with exactly one Error frame, starts
\* no backend stream and leaves the connection open, the receive loop
\* waiting for the next message.
C12_MalformedKeepsOpen ==
  [][(hpc = "ws_recv" /\ turns' = turns + 1 /\ hpc' # "ws_stream") =>
       /\ Len(events') = 1
       /\ events'[1].type = "error"
       /\ streams' = streams
       /\ consumed' = << >>
       /\ hpc' = "ws_recv"
       /\ connected']_vars

\* C14: once a streaming turn has observed that its client is gone, it
\* takes no further backend chunk and sends no further frame, and the turn
\* is over; on the WebSocket transport the receive loop then ends: waiting
\* at receive with the client gone, it can leave, and its next step does.
C14_DisconnectEndsTurnAndLoop ==
  /\ [](ended = "disconnected" => hpc \notin {"sse_stream", "ws_stream"})
  /\ []((transport = "ws" /\ ended = "disconnected" /\ hpc = "ws_recv") =>
          ENABLED WsReceiveDisconnect)
  /\ [][(ended = "disconnected" /\ ended' = "disconnected") =>
          /\ consumed' = consumed
          /\ events' = events
          /\ now' = now => hpc' = "idle"]_vars

\* a counter of a backend body, a missing one counted as 0
Counted(x) == IF x = NoCount THEN 0 ELSE x

\* the text of the Token events among evs, in order
RECURSIVE TokenText(_)
TokenText(evs) ==
  IF evs = << >> THEN NoText
  ELSE (IF Head(evs).type = "token" THEN Head(evs).token ELSE NoText)
       \o TokenText(Tail(evs))

\* C16: a turn that met a chunk with an error indicator has, on either
\* transport, sent as its last event an Error carrying that chunk's message,
\* before it only the Tokens of the earlier chunks (none for the error chunk,
\* and no Done), and from then on takes no chunk and sends no event.
C16_ErrorChunkFails ==
  /\ [](ended = "error_chunk" =>
          /\ events # << >>
          /\ events[Len(events)] =
               [type |-> "error", message |-> consumed[Len(consumed)].error]
          /\ \A i \in 1..(Len(events) - 1) : events[i].type = "token"
          /\ TokenText(events) = TextOf(SubSeq(consumed, 1, Len(consumed) - 1)))
  /\ [][(ended = "error_chunk" /\ ended' = "error_chunk") =>
          (consumed' = consumed /\ events' = events)]_vars

\* C17: a streaming turn never records more than one metrics sample; one
\* that ended with Done recorded exactly one, with the done chunk's prompt
\* and completion counters (missing counted as 0, zeros when the stream ended
\* without a done chunk), and its Done carries their sum as total_tokens; one
\* that ended at an error chunk or a backend failure, with Error, recorded
\* none; the sample is recorded in the step that sends Done, and none after
\* a terminal event.
C17_RecordOncePerDone ==
  /\ [](transport \in {"sse", "ws"} => Len(samples) <= 1)
  /\ [](( /\ transport \in {"sse", "ws"}
          /\ events # << >>
          /\ events[Len(events)].type = "done" ) =>
          LET done == events[Len(events)]
              last == consumed[Len(consumed)]
              p == IF ended = "done" THEN Counted(last.prompt_eval_count) ELSE 0
              c == IF ended = "done" THEN Counted(last.eval_count) ELSE 0
          IN /\ samples = <<[lat |-> done.latency_ms, p |-> p, c |-> c]>>
             /\ done.usage.prompt_tokens = p
             /\ done.usage.completion_tokens = c
             /\ done.usage.total_tokens = p + c)
  /\ [](( /\ transport \in {"sse", "ws"}
          /\ ended \in {"error_chunk", "service_error"} ) => samples = << >>)
  /\ [][(transport' \in {"sse", "ws"} /\ Len(samples') > Len(samples)) =>
          Terminals(events) = 0]_vars

\* a turn sent Done, some time after its start, for a done chunk that has
\* no counters
C17_Witness ==
  /\ transport \in {"sse", "ws"}
  /\ ended = "done"
  /\ events[Len(events)].type = "done"
  /\ events[Len(events)].latency_ms > 0
  /\ consumed[Len(consumed)].prompt_eval_count = NoCount
  /\ consumed[Len(consumed)].eval_count = NoCount
  /\ samples = <<[lat |-> events[Len(events)].latency_ms, p |-> 0, c |-> 0]>>

\* C18: the content of a Done event is the concatenation, in order, of the
\* texts of the Token events sent before it in the turn (the empty text when
\* there is none), the token of the done chunk included.
C18_DoneContentIsTokens ==
  ( /\ transport \in {"sse", "ws"}
    /\ events # << >>
    /\ events[Len(events)].type = "done" )
  => /\ events[Len(events)].content = TokenText(events)
     /\ TokenText(events) = TextOf(consumed)

\* Done was sent for a done chunk that carried a token itself, after one
\* earlier Token
C18_Witness ==
  /\ ended = "done"
  /\ Len(consumed) = 2
  /\ consumed[2].done
  /\ TokenFromChunk(consumed[2]) = Bang
  /\ Len(events) = 3
  /\ events[1] = TokenEvent(Hi)
  /\ events[2] = TokenEvent(Bang)
  /\ events[3].type = "done"
  /\ events[3].content = Hi \o Bang

\* the token the claim assigns to chunk c
ExtractedToken(c) ==
  IF c.response # NoText THEN c.response
  ELSE IF c.content # NoText THEN c.content
  ELSE NoText

\* the Token events the claim expects for the chunks q, in order
RECURSIVE ExpectedTokens(_)
ExpectedTokens(q) ==
  IF q = << >> THEN << >>
  ELSE (IF Head(q).error = "" /\ ExtractedToken(Head(q)) # NoText
        THEN <<TokenEvent(ExtractedToken(Head(q)))>> ELSE << >>)
       \o ExpectedTokens(Tail(q))

\* the Token events among evs, in order
RECURSIVE TokenEvents(_)
TokenEvents(evs) ==
  IF evs = << >> THEN << >>
  ELSE (IF Head(evs).type = "token" THEN <<Head(evs)>> ELSE << >>)
       \o TokenEvents(Tail(evs))

\* C23: the token of a chunk without an error indicator is its response
\* when that is non-empty, else the content of its message when that is
\* non-empty, else nothing, and a Token event is emitted for a chunk exactly
\* when its token is non-empty: on either transport, while the client is
\* connected, the Token events sent in a turn are, in order, the tokens of
\* the turn's chunks that have one, and a chunk without text adds none.
C23_TokenPerChunkWithText ==
  connected => TokenEvents(events) = ExpectedTokens(consumed)

\* a turn took a chunk with both a response and a message content and then
\* a chunk with neither: one Token was sent, carrying the response
C23_Witness ==
  /\ connected
  /\ hpc \in {"sse_stream", "ws_stream"}
  /\ Len(consumed) = 2
  /\ consumed[1].response = Hi
  /\ consumed[1].content = Bang
  /\ ExtractedToken(consumed[2]) = NoText
  /\ events = <<TokenEvent(Hi)>>

\* the texts of the Token events evs
TextsOf(evs) == [i \in 1..Len(evs) |-> evs[i].token]

\* C25: turns on one WebSocket connection are isolated.  The step that
\* starts a turn leaves the text accumulator empty, the done flag unset and
\* the timer at the present time, whatever the turn before it was; from
\* then on the accumulator holds exactly the tokens of this turn's chunks,
\* and a Done carries their concatenation and a latency measured from this
\* turn's start.  So the events of a turn depend on its own chunks only,
\* also when the turn before it ended with Error or a backend failure.
C25_TurnIsolation ==
  /\ [][(hpc = "ws_recv" /\ hpc' = "ws_stream") =>
          /\ collected' = << >>
          /\ done_sent' = FALSE
          /\ started' = now'
          /\ consumed' = << >>
          /\ events' = << >>]_vars
  /\ []((transport = "ws" /\ hpc = "ws_stream") =>
          collected = TextsOf(ExpectedTokens(consumed)))
  /\ []((/\ transport = "ws"
         /\ events # << >>
         /\ events[Len(events)].type = "done") =>
          /\ events[Len(events)].content
               = Join(TextsOf(ExpectedTokens(consumed)))
          /\ events[Len(events)].latency_ms <= LatencyMs(started, now))

\* the second turn of a connection sent Done with its own token alone,
\* after a first turn that recorded nothing: one that ended with Error
C25_Witness ==
  /\ transport = "ws"
  /\ streams[cid] = 2
  /\ requests_total = 1
  /\ ended = "done"
  /\ Len(consumed) = 1
  /\ consumed[1].content = Bang
  /\ Len(events) = 2
  /\ events[1] = TokenEvent(Bang)
  /\ events[2].type = "done"
  /\ events[2].content = Bang

\* ============================================ non-streaming chat: claims

\* C13: a POST /api/chat request whose messages list is empty is answered as
\* a validation failure without any limiter admission check (no bucket is
\* created or charged) and without any backend call.
C13_InvalidBeforeAdmission ==
  [][ended' = "invalid" /\ turns' = turns + 1 =>
       /\ buckets' = buckets
       /\ requests' = requests
       /\ streams' = streams]_vars

\* C15: a non-streaming chat request that reaches the handler begins exactly
\* one backend chat call; when the call returns, exactly one metrics sample
\* is recorded, carrying the body's prompt and completion counters (missing
\* counted as 0), and the response has total_tokens = prompt_tokens +
\* completion_tokens and latency_ms >= 0; when the call fails, no sample is
\* recorded and the response is an error with status 502 for an upstream
\* status of 500 or more and the upstream status otherwise.
C15_NonStreamingChat ==
  /\ [](hpc = "chat_call" => samples = << >>)
  /\ []((transport = "http" /\ ended = "responded") =>
          /\ Len(samples) = 1
          /\ Len(events) = 1
          /\ samples[1].p = Counted(consumed[1].prompt_eval_count)
          /\ samples[1].c = Counted(consumed[1].eval_count)
          /\ samples[1].lat = events[1].latency_ms
          /\ events[1].status_code = 200
          /\ events[1].usage.prompt_tokens = samples[1].p
          /\ events[1].usage.completion_tokens = samples[1].c
          /\ events[1].usage.total_tokens = samples[1].p + samples[1].c
          /\ events[1].latency_ms >= 0)
  /\ []((transport = "http" /\ ended = "service_error") =>
          /\ samples = << >>
          /\ Len(events) = 1
          /\ events[1].type = "http_error"
          /\ events[1].status_code =
               IF consumed[1].status_code >= 500 THEN 502
               ELSE consumed[1].status_code)
  /\ [][/\ (hpc = "idle" /\ hpc' = "chat_call") =>
             streams' = [streams EXCEPT ![cid'] = @ + 1]
        /\ hpc = "chat_call" => streams' = streams]_vars

\* a second request returned, after some time, a body without a prompt
\* counter, after a first one failed upstream
C15_Witness ==
  /\ transport = "http"
  /\ ended = "responded"
  /\ turns = 2
  /\ requests_total = 1
  /\ consumed[1].prompt_eval_count = NoCount
  /\ samples = <<[lat |-> events[1].latency_ms, p |-> 0, c |-> 1]>>
  /\ events[1].latency_ms > 0

====
